---- MODULE Spec2Model ----
(***************************************************************************)
(* A model of monitor_control.py: the capabilities-string parser           *)
(* (Display.parse_capabilities_string, Display._parse_vcp_list) and the    *)
(* Display object's property getters and setters over the DDC/CI           *)
(* primitives GetVCPFeatureAndVCPFeatureReply / SetVCPFeature /            *)
(* DestroyPhysicalMonitor.                                                 *)
(*                                                                         *)
(* A Python str is modelled as a sequence of one-character strings, a      *)
(* dict as a function whose DOMAIN is the set of its keys.                 *)
(***************************************************************************)
EXTENDS Integers, Sequences, FiniteSets, TLC

VARIABLES
    input,          \* the string handed to parse_capabilities_string
    parsed,         \* the outcome of that call (NotParsed before it)
    devCaps,        \* the capabilities string the monitor reports
    _capabilities,  \* Display._capabilities: None until cached, then the document
    _capabilities_raw, \* Display._capabilities_raw: an attribute __init__ never binds
    fetched,        \* successful CapabilitiesRequestAndCapabilitiesReply calls
    releaseCalls,   \* DestroyPhysicalMonitor calls made on the handle
    finalized,      \* __del__ has run: the instance is gone
    call            \* the record of the most recent method call

vars == << input, parsed, devCaps, _capabilities, _capabilities_raw, fetched,
           releaseCalls, finalized, call >>

(***************************************************************************)
(* Python str primitives.                                                  *)
(***************************************************************************)

\* str.isspace() on one ASCII character
IsSpace(c) == c \in {" ", "\t", "\n", "\r"}

\* a slice bound as Python normalises it: negative counts from the end,
\* then clamped into 0..n
PyIdx(n, k) ==
    IF k < 0 THEN (IF k + n < 0 THEN 0 ELSE k + n)
    ELSE (IF k > n THEN n ELSE k)

\* s[a:b], 0-based, with Python's treatment of negative and large bounds
Slice(s, a, b) ==
    LET lo == PyIdx(Len(s), a)
        hi == PyIdx(Len(s), b)
    IN  IF lo >= hi THEN << >> ELSE SubSeq(s, lo + 1, hi)

\* s[k], 0-based; a negative k counts from the end
CharAt(s, k) == IF k < 0 THEN s[Len(s) + k + 1] ELSE s[k + 1]

\* the 1-based positions where a maximal run of non-whitespace starts
TokenStarts(s) ==
    { i \in 1 .. Len(s) : ~IsSpace(s[i]) /\ (i = 1 \/ IsSpace(s[i - 1])) }

\* the last position of the run that starts at i
TokenEnd(s, i) ==
    CHOOSE j \in i .. Len(s) :
        /\ \A k \in i .. j : ~IsSpace(s[k])
        /\ (j = Len(s) \/ IsSpace(s[j + 1]))

\* str.split(): the maximal runs of non-whitespace, in order
Split(s) ==
    LET starts == TokenStarts(s)
        nth(k) == CHOOSE i \in starts : Cardinality({ j \in starts : j < i }) = k - 1
    IN  [k \in 1 .. Cardinality(starts) |-> SubSeq(s, nth(k), TokenEnd(s, nth(k)))]

\* d[k] = v on a dict
DictSet(d, k, v) == (k :> v) @@ d

EmptyDict == << >>

(***************************************************************************)
(* Display._parse_vcp_list                                                 *)
(***************************************************************************)

\* the values a vcp entry is bound to: None, or a list of tokens
VcpNone == [isNone |-> TRUE, toks |-> << >>]
VcpList(t) == [isNone |-> FALSE, toks |-> t]

VcpInit == [vcp_dict |-> EmptyDict, open_p |-> 0, codeBound |-> FALSE,
            code |-> << >>, err |-> "none"]

\* one iteration of the loop body, on character i (0-based) of vcp_list
VcpStep(st, v, i) ==
    LET chr == CharAt(v, i) IN
    IF chr = "("
    THEN [st EXCEPT !.open_p = i, !.codeBound = TRUE,
                    !.code = Slice(v, i - 2, i)]
    ELSE IF chr = ")"
    THEN IF ~st.codeBound
         THEN [st EXCEPT !.err = "UnboundLocalError"]
         ELSE [st EXCEPT !.vcp_dict =
                  DictSet(@, st.code, VcpList(Split(Slice(v, st.open_p + 1, i))))]
    ELSE IF IsSpace(chr) /\ CharAt(v, i - 1) # ")"
    THEN [st EXCEPT !.vcp_dict = DictSet(@, Slice(v, i - 2, i), VcpNone)]
    ELSE st

\* the loop over characters lo .. hi-1 in order; an exception ends it.
\* The range is split in halves so that the evaluation does not nest once
\* per character, and the state after the first half is computed once
\* (bound as `half`) before the second half runs on it.
RECURSIVE VcpLoop(_, _, _, _)
VcpLoop(st, v, lo, hi) ==
    IF lo >= hi \/ st.err # "none" THEN st
    ELSE IF hi = lo + 1 THEN VcpStep(st, v, lo)
    ELSE LET mid == (lo + hi) \div 2
         IN  CHOOSE r \in { VcpLoop(half, v, mid, hi) :
                               half \in { VcpLoop(st, v, lo, mid) } } : TRUE

\* the outcome of _parse_vcp_list(vcp_list): the dict, or the exception
_parse_vcp_list(vcp_list) ==
    LET st == VcpLoop(VcpInit, vcp_list, 0, Len(vcp_list))
    IN  [err |-> st.err, vcp_dict |-> st.vcp_dict]

(***************************************************************************)
(* Display.parse_capabilities_string                                       *)
(***************************************************************************)

\* the values a top-level key is bound to: a raw str, the cmds token list,
\* or the vcp dict
RawValue(s)  == [kind |-> "str",  str |-> s,     list |-> << >>, vcp |-> EmptyDict]
ListValue(l) == [kind |-> "list", str |-> << >>, list |-> l,     vcp |-> EmptyDict]
VcpValue(d)  == [kind |-> "vcp",  str |-> << >>, list |-> << >>, vcp |-> d]

KeyCmds == << "c", "m", "d", "s" >>
KeyVcp == << "v", "c", "p" >>
KeyModel == << "m", "o", "d", "e", "l" >>

CapInit == [level |-> 0, capabilities |-> EmptyDict, open_p |-> EmptyDict,
            close_p |-> (0 :> 0), id |-> EmptyDict, err |-> "none"]

\* the branch of the loop body taken when a ')' brings level back to 0
CapClose(st, s, i) ==
    IF 0 \notin DOMAIN st.open_p \/ 0 \notin DOMAIN st.id
    THEN [st EXCEPT !.err = "KeyError"]
    ELSE LET values == Slice(s, st.open_p[0] + 1, i)
             key == st.id[0]
         IN  IF key = KeyCmds
             THEN [st EXCEPT !.capabilities =
                      DictSet(@, key, ListValue(Split(values)))]
             ELSE IF key = KeyVcp
             THEN LET r == _parse_vcp_list(values) IN
                  IF r.err # "none"
                  THEN [st EXCEPT !.err = r.err]
                  ELSE [st EXCEPT !.capabilities =
                           DictSet(@, key, VcpValue(r.vcp_dict))]
             ELSE [st EXCEPT !.capabilities = DictSet(@, key, RawValue(values))]

\* one iteration of the loop body, on character i (0-based)
CapStep(st, s, i) ==
    LET chr == CharAt(s, i) IN
    IF chr = "("
    THEN IF i = 0
         THEN [st EXCEPT !.close_p = DictSet(@, 0, 1)]
         ELSE LET opened == [st EXCEPT !.open_p = DictSet(@, st.level, i)]
                  named == IF st.level = 0
                           THEN [opened EXCEPT !.id =
                                    DictSet(@, 0, Slice(s, st.close_p[0] + 1, i))]
                           ELSE opened
              IN  [named EXCEPT !.level = st.level + 1]
    ELSE IF chr = ")"
    THEN LET closed == [st EXCEPT !.level = st.level - 1,
                                  !.close_p = DictSet(@, st.level - 1, i)]
         IN  IF closed.level = 0 THEN CapClose(closed, s, i) ELSE closed
    ELSE st

\* the loop over characters lo .. hi-1 in order; an exception ends it.
\* The range is split in halves so that the evaluation does not nest once
\* per character, and the state after the first half is computed once
\* (bound as `half`) before the second half runs on it.
RECURSIVE CapLoop(_, _, _, _)
CapLoop(st, s, lo, hi) ==
    IF lo >= hi \/ st.err # "none" THEN st
    ELSE IF hi = lo + 1 THEN CapStep(st, s, lo)
    ELSE LET mid == (lo + hi) \div 2
         IN  CHOOSE r \in { CapLoop(half, s, mid, hi) :
                               half \in { CapLoop(st, s, lo, mid) } } : TRUE

\* the outcome of parse_capabilities_string(s): the document it returns,
\* or the exception that ends the call (then no document is returned)
parse_capabilities_string(s) ==
    LET st == CapLoop(CapInit, s, 0, Len(s))
    IN  [err |-> st.err,
         capabilities |-> IF st.err = "none" THEN st.capabilities ELSE EmptyDict]

\* the capabilities string of the U2713HM the documentation quotes
Canonical == <<
    "(", "p", "r", "o", "t", "(", "m", "o", "n", "i", "t", "o", "r", ")", "t", "y",
    "p", "e", "(", "l", "c", "d", ")", "m", "o", "d", "e", "l", "(", "U", "2", "7",
    "1", "3", "H", "M", ")", "c", "m", "d", "s", "(", "0", "1", " ", "0", "2", " ",
    "0", "3", ")", "v", "c", "p", "(", "0", "2", " ", "0", "4", " ", "1", "4", "(",
    "0", "1", " ", "0", "4", " ", "0", "5", ")", " ", "6", "0", "(", "0", "1", " ",
    "0", "3", " ", "0", "4", " ", "0", "F", ")", " ", "A", "C", ")", "m", "c", "c",
    "s", "_", "v", "e", "r", "(", "2", ".", "1", ")", ")" >>


(***************************************************************************)
(* The strings parse_capabilities_string is applied to: the documented     *)
(* one, and every concatenation of at most MaxFrags fragments.             *)
(***************************************************************************)

MaxFrags == 4

Fragments ==
    { << "(" >>, << ")" >>, << " " >>, << "1", "0" >>, << "m", "(", ")" >>,
      << "v", "c", "p", "(" >>, << "c", "m", "d", "s", "(" >> }

RECURSIVE FragStrings(_)
FragStrings(n) ==
    IF n = 0 THEN { << >> }
    ELSE LET S == FragStrings(n - 1) IN S \cup { s \o f : s \in S, f \in Fragments }

ParseInputs == { Canonical } \cup FragStrings(MaxFrags)

NotParsed == [done |-> FALSE, err |-> "none", capabilities |-> EmptyDict]

(***************************************************************************)
(* The VCP registry (vcp_codes), codes in decimal.                         *)
(***************************************************************************)

vcp_codes ==
    ("New Control Value" :> 2) @@ ("Restore Factory Defaults" :> 4) @@
    ("Restore Factory Luminance/ Contrast Defaults" :> 5) @@
    ("Restore Factory Geometry Defaults" :> 6) @@
    ("Restore Factory Color Defaults" :> 8) @@
    ("Luminance" :> 16) @@ ("Contrast" :> 18) @@
    ("Select Color Preset" :> 20) @@
    ("Video Gain (Drive): Red" :> 22) @@ ("Video Gain (Drive): Green" :> 24) @@
    ("Video Gain (Drive): Blue" :> 26) @@
    ("Active Control" :> 82) @@ ("Input Source" :> 96) @@
    ("Video Black Level: Red" :> 22) @@ ("Video Black Level: Green" :> 24) @@
    ("Video Black Level: Blue" :> 26) @@
    ("Horizontal Frequency" :> 172) @@ ("Vertical Frequency" :> 174) @@
    ("Flat Panel Sub-Pixel Layout" :> 178) @@
    ("Display Technology Type" :> 182) @@
    ("Application Enable Key" :> 198) @@
    ("Display Controller Type" :> 200) @@
    ("Display Firmware Level" :> 201) @@ ("OSD" :> 202) @@
    ("Power Mode" :> 214) @@ ("Display Application" :> 220) @@
    ("VCP Version" :> 223) @@
    ("Dell-E0" :> 224) @@ ("Dell-E1" :> 225) @@ ("Dell-E2" :> 226) @@
    ("Dell-F0" :> 240) @@ ("Dell-F1" :> 241) @@ ("Dell-F2" :> 242) @@
    ("Dell-FD" :> 253)

(***************************************************************************)
(* The DDC/CI primitives.  What the monitor answers is an input of each    *)
(* call; every invocation is recorded as an event of the call.             *)
(***************************************************************************)

\* GetVCPFeatureAndVCPFeatureReply on `code`, answered by `reply`
GetEv(code, reply) ==
    [prim |-> "get_feature", code |-> code, ok |-> reply.ok,
     cur |-> reply.cur, max |-> reply.max, value |-> 0]

\* SetVCPFeature(code, value)
SetEv(code, value, ok) ==
    [prim |-> "set_feature", code |-> code, ok |-> ok,
     cur |-> 0, max |-> 0, value |-> value]

\* a primitive with no feature code (capabilities fetch, release)
PlainEv(prim, ok) ==
    [prim |-> prim, code |-> 0, ok |-> ok, cur |-> 0, max |-> 0, value |-> 0]

FailedReply == [ok |-> FALSE, cur |-> 0, max |-> 0]

\* what a method call returned
Raised       == [kind |-> "raised", str |-> "", chars |-> << >>, milli |-> 0]
PyNone       == [kind |-> "None",   str |-> "", chars |-> << >>, milli |-> 0]
StrResult(s) == [kind |-> "str",    str |-> s,  chars |-> << >>, milli |-> 0]
TextResult(c) == [kind |-> "text",  str |-> "", chars |-> c, milli |-> 0]
DocResult    == [kind |-> "doc",    str |-> "", chars |-> << >>, milli |-> 0]
\* the float n / 1000, kept as its number of thousandths
FloatResult(n) == [kind |-> "float", str |-> "", chars |-> << >>, milli |-> n]

NoArg == [name |-> "", value |-> 0, values |-> << >>]
NameArg(n) == [name |-> n, value |-> 0, values |-> << >>]
ValueArg(v) == [name |-> "", value |-> v, values |-> << >>]
ValuesArg(vs) == [name |-> "", value |-> 0, values |-> vs]

\* the record of one method call: its argument, the primitives it invoked
\* in order, how it ended (ok or the exception) and what it returned
Call(op, arg, r) ==
    [op |-> op, arg |-> arg, events |-> r.events, outcome |-> r.outcome,
     result |-> r.result]

Outcome(events, outcome, result) ==
    [events |-> events, outcome |-> outcome, result |-> result]

\* dict.get(key): None when the key is absent
DictGet(d, key) == IF key \in DOMAIN d THEN StrResult(d[key]) ELSE PyNone

\* d[key] as the last statement of a getter: KeyError when absent
DictIndex(d, key, events) ==
    IF key \in DOMAIN d THEN Outcome(events, "ok", StrResult(d[key]))
    ELSE Outcome(events, "KeyError", Raised)

(***************************************************************************)
(* Read-only decoded identification fields.                                *)
(***************************************************************************)

_display_technology_types ==
    (1 :> "CRT (shadow mask)") @@ (2 :> "CRT (aperture grill)") @@
    (3 :> "LCD (active matrix)") @@ (4 :> "LCoS") @@ (5 :> "Plasma") @@
    (6 :> "OLED") @@ (7 :> "EL") @@ (8 :> "Dynamic MEM e.g. DLP") @@
    (9 :> "Static MEM e.g. iMOD")

display_technology_type(reply) ==
    LET get == GetEv(vcp_codes["Display Technology Type"], reply) IN
    IF ~reply.ok THEN Outcome(<< get >>, "WinError", Raised)
    ELSE Outcome(<< get >>, "ok", DictGet(_display_technology_types, reply.cur))

_flat_panel_sub_pixel_layouts ==
    (0 :> "Sub-pixel layout is not defined") @@
    (1 :> "Red / Green / Blue vertical stripe") @@
    (2 :> "Red / Green / Blue horizontal stripe") @@
    (3 :> "Blue / Green / Red vertical stripe") @@
    (4 :> "Blue/ Green / Red horizontal stripe") @@
    (5 :> "Quad-pixel, a 2 x 2 sub-pixel structure with red at top left, blue at bottom right and green at top right and bottom left") @@
    (6 :> "Quad-pixel, a 2 x 2 sub-pixel structure with red at bottom left, blue at top right and green at top left and bottom right") @@
    (7 :> "Delta (triad)") @@
    (8 :> "Mosaic with interleaved sub-pixels of different colors")

flat_panel_sub_pixel_layout(reply) ==
    LET get == GetEv(vcp_codes["Flat Panel Sub-Pixel Layout"], reply) IN
    IF ~reply.ok THEN Outcome(<< get >>, "WinError", Raised)
    ELSE Outcome(<< get >>, "ok",
                 DictGet(_flat_panel_sub_pixel_layouts, reply.cur))

_display_controller_type_lsb ==
    (1 :> "Conexant") @@ (2 :> "Genesis Microchip") @@ (3 :> "Macronix") @@
    (4 :> "MRT (Media Reality Technologies)") @@
    (5 :> "Mstar Semiconductor") @@ (6 :> "Myson") @@ (7 :> "Philips") @@
    (8 :> "PixelWorks") @@ (9 :> "RealTek Semiconductor") @@ (10 :> "Sage") @@
    (11 :> "Silicon Image") @@ (12 :> "SmartASIC") @@
    (13 :> "STMicroelectronics") @@ (14 :> "Topro") @@ (15 :> "Trumpion") @@
    (16 :> "Welltrend") @@ (17 :> "Samsung") @@
    (18 :> "Novatek Microelectronics") @@ (19 :> "STK") @@
    (255 :> "Manufacturer designed controller")

\* value & 0xff on a DWORD
LowByte(value) == value % 256

display_controller_type(reply) ==
    LET get == GetEv(vcp_codes["Display Controller Type"], reply) IN
    IF ~reply.ok THEN Outcome(<< get >>, "WinError", Raised)
    ELSE Outcome(<< get >>, "ok",
                 DictGet(_display_controller_type_lsb, LowByte(reply.cur)))

(***************************************************************************)
(* horizontal_frequency.                                                   *)
(***************************************************************************)

\* value | 0x10000 on a DWORD: bit 16 is set when it is clear
Or0x10000(value) ==
    IF (value \div 65536) % 2 = 1 THEN value ELSE value + 65536

\* horizontal_frequency with the correction applied up to 50000 included
horizontal_frequency_inclusive(reply) ==
    LET get == GetEv(172, reply) IN
    IF ~reply.ok THEN Outcome(<< get >>, "WinError", Raised)
    ELSE Outcome(<< get >>, "ok",
                 FloatResult(IF reply.cur <= 50000 THEN Or0x10000(reply.cur)
                             ELSE reply.cur))

\* value / 1000 after the missing-MSB correction of the values under 50000
horizontal_frequency(reply) ==
    LET get == GetEv(vcp_codes["Horizontal Frequency"], reply) IN
    IF ~reply.ok THEN Outcome(<< get >>, "WinError", Raised)
    ELSE Outcome(<< get >>, "ok",
                 FloatResult(IF reply.cur < 50000 THEN Or0x10000(reply.cur)
                             ELSE reply.cur))

(***************************************************************************)
(* Continuous features: brightness, contrast.                              *)
(***************************************************************************)

\* Clamp with the lower bound forgotten
ClampNoFloor(value, max) == IF value > max THEN max ELSE value

\* if value > max: value = max / elif value < 0: value = 0
Clamp(value, max) ==
    IF value > max THEN max ELSE IF value < 0 THEN 0 ELSE value

\* brightness_setter without the test `value == current`
brightness_setter_always_writes(value, reply, setOk) ==
    LET code == vcp_codes["Luminance"]
        get == GetEv(code, reply)
        set == SetEv(code, Clamp(value, reply.max), setOk)
    IN  IF ~reply.ok THEN Outcome(<< get >>, "WinError", Raised)
        ELSE IF ~setOk THEN Outcome(<< get, set >>, "WinError", Raised)
        ELSE Outcome(<< get, set >>, "ok", PyNone)

brightness_setter(value, reply, setOk) ==
    LET code == vcp_codes["Luminance"]
        get == GetEv(code, reply)
        set == SetEv(code, Clamp(value, reply.max), setOk)
    IN  IF ~reply.ok THEN Outcome(<< get >>, "WinError", Raised)
        ELSE IF value = reply.cur THEN Outcome(<< get >>, "ok", PyNone)
        ELSE IF ~setOk THEN Outcome(<< get, set >>, "WinError", Raised)
        ELSE Outcome(<< get, set >>, "ok", PyNone)

\* contrast_setter going on to the write after a failed read
contrast_setter_ignores_failed_read(value, reply, setOk) ==
    LET code == vcp_codes["Contrast"]
        get == GetEv(code, reply)
        set == SetEv(code, Clamp(value, reply.max), setOk)
    IN  IF reply.ok /\ value = reply.cur THEN Outcome(<< get >>, "ok", PyNone)
        ELSE IF ~setOk THEN Outcome(<< get, set >>, "WinError", Raised)
        ELSE Outcome(<< get, set >>, "ok", PyNone)

contrast_setter(value, reply, setOk) ==
    LET code == vcp_codes["Contrast"]
        get == GetEv(code, reply)
        set == SetEv(code, Clamp(value, reply.max), setOk)
    IN  IF ~reply.ok THEN Outcome(<< get >>, "WinError", Raised)
        ELSE IF value = reply.cur THEN Outcome(<< get >>, "ok", PyNone)
        ELSE IF ~setOk THEN Outcome(<< get, set >>, "WinError", Raised)
        ELSE Outcome(<< get, set >>, "ok", PyNone)

(***************************************************************************)
(* Enumerated features: color_preset, input_source, display_application,   *)
(* power_mode.                                                             *)
(***************************************************************************)

_color_presets ==
    (1 :> "srgb") @@ (4 :> "5000k") @@ (5 :> "6500k") @@ (6 :> "7500k") @@
    (8 :> "9300k") @@ (9 :> "10000k") @@ (11 :> "5700k") @@ (12 :> "user")

_color_presets_i ==
    ("srgb" :> 1) @@ ("5000k" :> 4) @@ ("6500k" :> 5) @@ ("7500k" :> 6) @@
    ("9300k" :> 8) @@ ("10000k" :> 9) @@ ("5700k" :> 11) @@ ("user" :> 12)

\* color_preset_getter looking the value up with dict.get
color_preset_getter_lenient(reply) ==
    LET get == GetEv(vcp_codes["Select Color Preset"], reply) IN
    IF ~reply.ok THEN Outcome(<< get >>, "WinError", Raised)
    ELSE Outcome(<< get >>, "ok", DictGet(_color_presets, reply.cur))

color_preset_getter(reply) ==
    LET get == GetEv(vcp_codes["Select Color Preset"], reply) IN
    IF ~reply.ok THEN Outcome(<< get >>, "WinError", Raised)
    ELSE DictIndex(_color_presets, reply.cur, << get >>)

\* color_preset_setter reading the current value before it translates the name
color_preset_setter_reads_first(name, reply, setOk) ==
    LET code == vcp_codes["Select Color Preset"]
        get == GetEv(code, reply)
    IN  IF ~reply.ok THEN Outcome(<< get >>, "WinError", Raised)
        ELSE IF name \notin DOMAIN _color_presets_i
        THEN Outcome(<< get >>, "KeyError", Raised)
        ELSE LET value == _color_presets_i[name]
                 set == SetEv(code, value, setOk)
             IN  IF value = reply.cur THEN Outcome(<< get >>, "ok", PyNone)
                 ELSE IF ~setOk THEN Outcome(<< get, set >>, "WinError", Raised)
                 ELSE Outcome(<< get, set >>, "ok", PyNone)

color_preset_setter(name, reply, setOk) ==
    IF name \notin DOMAIN _color_presets_i THEN Outcome(<< >>, "KeyError", Raised)
    ELSE LET value == _color_presets_i[name]
             code == vcp_codes["Select Color Preset"]
             get == GetEv(code, reply)
             set == SetEv(code, value, setOk)
         IN  IF ~reply.ok THEN Outcome(<< get >>, "WinError", Raised)
             ELSE IF value = reply.cur THEN Outcome(<< get >>, "ok", PyNone)
             ELSE IF ~setOk THEN Outcome(<< get, set >>, "WinError", Raised)
             ELSE Outcome(<< get, set >>, "ok", PyNone)

_input_sources == (1 :> "vga") @@ (3 :> "dvi") @@ (4 :> "hdmi") @@ (15 :> "dp")

\* _input_sources_i with the codes of dvi and hdmi exchanged
_input_sources_i_swapped ==
    ("vga" :> 1) @@ ("dvi" :> 4) @@ ("hdmi" :> 3) @@ ("dp" :> 15)

_input_sources_i == ("vga" :> 1) @@ ("dvi" :> 3) @@ ("hdmi" :> 4) @@ ("dp" :> 15)

input_source_getter(reply) ==
    LET get == GetEv(vcp_codes["Input Source"], reply) IN
    IF ~reply.ok THEN Outcome(<< get >>, "WinError", Raised)
    ELSE DictIndex(_input_sources, reply.cur, << get >>)

input_source_setter(name, reply, setOk) ==
    IF name \notin DOMAIN _input_sources_i THEN Outcome(<< >>, "KeyError", Raised)
    ELSE LET value == _input_sources_i[name]
             code == vcp_codes["Input Source"]
             get == GetEv(code, reply)
             set == SetEv(code, value, setOk)
         IN  IF ~reply.ok THEN Outcome(<< get >>, "WinError", Raised)
             ELSE IF value = reply.cur THEN Outcome(<< get >>, "ok", PyNone)
             ELSE IF ~setOk THEN Outcome(<< get, set >>, "WinError", Raised)
             ELSE Outcome(<< get, set >>, "ok", PyNone)

_display_applications == (0 :> "std") @@ (2 :> "mix") @@ (3 :> "mov") @@ (5 :> "gam")

_display_applications_i == ("std" :> 0) @@ ("mix" :> 2) @@ ("mov" :> 3) @@ ("gam" :> 5)

display_application_getter(reply) ==
    LET get == GetEv(vcp_codes["Display Application"], reply) IN
    IF ~reply.ok THEN Outcome(<< get >>, "WinError", Raised)
    ELSE DictIndex(_display_applications, reply.cur, << get >>)

display_application_setter(name, reply, setOk) ==
    IF name \notin DOMAIN _display_applications_i THEN Outcome(<< >>, "KeyError", Raised)
    ELSE LET value == _display_applications_i[name]
             code == vcp_codes["Display Application"]
             get == GetEv(code, reply)
             set == SetEv(code, value, setOk)
         IN  IF ~reply.ok THEN Outcome(<< get >>, "WinError", Raised)
             ELSE IF value = reply.cur THEN Outcome(<< get >>, "ok", PyNone)
             ELSE IF ~setOk THEN Outcome(<< get, set >>, "WinError", Raised)
             ELSE Outcome(<< get, set >>, "ok", PyNone)

_power_mode == (1 :> "on") @@ (5 :> "off")

_power_mode_i == ("on" :> 1) @@ ("off" :> 5)

power_mode_getter(reply) ==
    LET get == GetEv(vcp_codes["Power Mode"], reply) IN
    IF ~reply.ok THEN Outcome(<< get >>, "WinError", Raised)
    ELSE DictIndex(_power_mode, reply.cur, << get >>)

power_mode_setter(name, reply, setOk) ==
    IF name \notin DOMAIN _power_mode_i THEN Outcome(<< >>, "KeyError", Raised)
    ELSE LET value == _power_mode_i[name]
             code == vcp_codes["Power Mode"]
             get == GetEv(code, reply)
             set == SetEv(code, value, setOk)
         IN  IF ~reply.ok THEN Outcome(<< get >>, "WinError", Raised)
             ELSE IF value = reply.cur THEN Outcome(<< get >>, "ok", PyNone)
             ELSE IF ~setOk THEN Outcome(<< get, set >>, "WinError", Raised)
             ELSE Outcome(<< get, set >>, "ok", PyNone)

(***************************************************************************)
(* The rgb setter: one loop iteration per supplied value.                  *)
(***************************************************************************)

\* RgbName with the colours listed Blue, Green, Red
RgbNameReversed(i) ==
    IF i = 1 THEN "Video Gain (Drive): Blue"
    ELSE IF i = 2 THEN "Video Gain (Drive): Green"
    ELSE "Video Gain (Drive): Red"

\* color = ['Red', 'Green', 'Blue'], template.format(color[i]), i 1-based
RgbName(i) ==
    IF i = 1 THEN "Video Gain (Drive): Red"
    ELSE IF i = 2 THEN "Video Gain (Drive): Green"
    ELSE "Video Gain (Drive): Blue"

\* RgbSkip with the sentinel forgotten
RgbSkipNoSentinel(value, current) == value = current

\* if value in (-1, current): continue
RgbSkip(value, current) == value \in { -1, current }

RECURSIVE RgbLoop(_, _, _, _, _)
RgbLoop(values, replies, setOks, i, events) ==
    IF i > Len(values) THEN Outcome(events, "ok", PyNone)
    ELSE LET code == vcp_codes[RgbName(i)]
             get == GetEv(code, replies[i])
             set == SetEv(code, Clamp(values[i], replies[i].max), setOks[i])
         IN  IF ~replies[i].ok
             THEN Outcome(events \o << get >>, "WinError", Raised)
             ELSE IF RgbSkip(values[i], replies[i].cur)
             THEN RgbLoop(values, replies, setOks, i + 1, events \o << get >>)
             ELSE IF ~setOks[i]
             THEN Outcome(events \o << get, set >>, "WinError", Raised)
             ELSE RgbLoop(values, replies, setOks, i + 1,
                          events \o << get, set >>)

rgb_setter(values, replies, setOks) == RgbLoop(values, replies, setOks, 1, << >>)

(***************************************************************************)
(* The lazily cached capabilities.                                         *)
(***************************************************************************)

CapNone == [isNone |-> TRUE, doc |-> EmptyDict]
CapDoc(d) == [isNone |-> FALSE, doc |-> d]

\* an attribute of the instance that no statement has bound yet
Unbound == [bound |-> FALSE, isNone |-> FALSE, text |-> << >>]
Bound(s) == [bound |-> TRUE, isNone |-> FALSE, text |-> s]

\* the instance fields a capabilities access reads and writes
Fields(cap, raw, n) == [cap |-> cap, raw |-> raw, fetched |-> n]

\* _get_capabilities(): the fields after it and the exception it raised
_get_capabilities(f, caps, lenOk, reqOk) ==
    LET len == PlainEv("GetCapabilitiesStringLength", lenOk)
        req == PlainEv("CapabilitiesRequestAndCapabilitiesReply", reqOk)
    IN  IF ~lenOk THEN [f |-> f, events |-> << len >>, err |-> "WinError"]
        ELSE IF ~reqOk
        THEN [f |-> f, events |-> << len, req >>, err |-> "WinError"]
        ELSE CHOOSE g \in
               { IF doc.err # "none"
                 THEN [f |-> Fields(f.cap, Bound(caps), f.fetched + 1),
                       events |-> << len, req >>, err |-> doc.err]
                 ELSE [f |-> Fields(CapDoc(doc.capabilities), Bound(caps),
                                    f.fetched + 1),
                       events |-> << len, req >>, err |-> "none"]
                 : doc \in { parse_capabilities_string(caps) } } : TRUE

NoFetch(f) == [f |-> f, events |-> << >>, err |-> "none"]

\* the capabilities property
capabilities(f, caps, lenOk, reqOk) ==
    CHOOSE c \in
      { IF g.err # "none" THEN [f |-> g.f, r |-> Outcome(g.events, g.err, Raised)]
        ELSE [f |-> g.f, r |-> Outcome(g.events, "ok", DocResult)]
        : g \in { IF f.cap.isNone THEN _get_capabilities(f, caps, lenOk, reqOk)
                  ELSE NoFetch(f) } } : TRUE

\* the capabilities_raw property: reading self._capabilities_raw raises
\* AttributeError while the attribute is unbound
capabilities_raw(f, caps, lenOk, reqOk) ==
    IF ~f.raw.bound THEN [f |-> f, r |-> Outcome(<< >>, "AttributeError", Raised)]
    ELSE CHOOSE c \in
           { IF g.err # "none"
             THEN [f |-> g.f, r |-> Outcome(g.events, g.err, Raised)]
             ELSE [f |-> g.f,
                   r |-> Outcome(g.events, "ok", TextResult(g.f.raw.text))]
             : g \in { IF f.raw.isNone
                       THEN _get_capabilities(f, caps, lenOk, reqOk)
                       ELSE NoFetch(f) } } : TRUE

\* the model property: self.capabilities['model']
model(f, caps, lenOk, reqOk) ==
    CHOOSE m \in
      { IF c.r.outcome # "ok" THEN c
        ELSE IF KeyModel \notin DOMAIN c.f.cap.doc
        THEN [f |-> c.f, r |-> Outcome(c.r.events, "KeyError", Raised)]
        ELSE [f |-> c.f,
              r |-> Outcome(c.r.events, "ok",
                            TextResult(c.f.cap.doc[KeyModel].str))]
        : c \in { capabilities(f, caps, lenOk, reqOk) } } : TRUE

(***************************************************************************)
(* close() and __del__.                                                    *)
(***************************************************************************)

\* close(): one DestroyPhysicalMonitor on the handle, WinError if it fails
close(ok) ==
    LET ev == PlainEv("DestroyPhysicalMonitor", ok) IN
    IF ~ok THEN Outcome(<< ev >>, "WinError", Raised)
    ELSE Outcome(<< ev >>, "ok", PyNone)

(***************************************************************************)
(* The inputs of the calls.                                                *)
(***************************************************************************)

MaxLevel == 3
MaxEnumCode == 16
MaxGain == 1
MaxCloseCalls == 2

Currents == (0 .. MaxLevel) \cup { 100 }
Maxima == { 0, MaxLevel, 100 }
UserValues == ((0 - 2) .. (MaxLevel + 2)) \cup { -10, 100, 150 }

OkReply(cur, max) == [ok |-> TRUE, cur |-> cur, max |-> max]

ContReplies ==
    { FailedReply } \cup { OkReply(c, m) : c \in Currents, m \in Maxima }

\* 261 = 0x0105 and 22021 = 0x5605: a controller type with a high byte
EnumCurrents == (0 .. MaxEnumCode) \cup { 255, 261, 22021 }

EnumReplies ==
    { FailedReply } \cup { OkReply(c, m) : c \in EnumCurrents, m \in { 0, 255 } }

\* raw frequency words around the correction threshold, and one DWORD
\* wider than 16 bits
FreqCurrents == { 0, 1, 40000, 49999, 50000, 50001, 60000, 65535, 70000 }

FreqReplies ==
    { FailedReply } \cup { OkReply(c, m) : c \in FreqCurrents, m \in { 0, 65535 } }

SettingNames ==
    DOMAIN _color_presets_i \cup DOMAIN _input_sources_i
        \cup DOMAIN _display_applications_i \cup DOMAIN _power_mode_i
        \cup { "neon" }

Gains == 0 .. MaxGain
RgbValues == { -1 } \cup Gains \cup { MaxGain + 1 }
RgbReplies == { FailedReply } \cup { OkReply(c, MaxGain) : c \in Gains }

\* the strings a monitor reports: the documented one, and one with no model
NoModelCaps ==
    << "(", "p", "r", "o", "t", "(", "m", "o", "n", "i", "t", "o", "r", ")",
       "v", "c", "p", "(", "1", "0", " ", "1", "2", ")", ")" >>

DevCapStrings == { Canonical, NoModelCaps }

(***************************************************************************)
(* The state machine of one Display instance and its caller.               *)
(***************************************************************************)

Idle == Call("idle", NoArg, Outcome(<< >>, "ok", PyNone))

\* the caller is between two calls and the instance is alive
Ready == call.op = "idle" /\ ~finalized

\* Display.__init__(handle)
Init ==
    /\ input = << >>
    /\ parsed = NotParsed
    /\ devCaps \in DevCapStrings
    /\ _capabilities = CapNone
    /\ _capabilities_raw = Unbound
    /\ fetched = 0
    /\ releaseCalls = 0
    /\ finalized = FALSE
    /\ call = Call("__init__", NoArg, Outcome(<< >>, "ok", PyNone))

\* control is back in the caller, which has looked at the call's outcome
Return ==
    /\ call.op # "idle"
    /\ call' = Idle
    /\ UNCHANGED << input, parsed, devCaps, _capabilities, _capabilities_raw,
                    fetched, releaseCalls, finalized >>

GetCapabilities ==
    /\ Ready
    /\ \E lenOk \in BOOLEAN, reqOk \in BOOLEAN :
          \E c \in { capabilities(Fields(_capabilities, _capabilities_raw, fetched),
                        devCaps, lenOk, reqOk) } :
              /\ call' = Call("capabilities", NoArg, c.r)
              /\ _capabilities' = c.f.cap
              /\ _capabilities_raw' = c.f.raw
              /\ fetched' = c.f.fetched
    /\ UNCHANGED << input, parsed, devCaps, releaseCalls, finalized >>

GetCapabilitiesRaw ==
    /\ Ready
    /\ \E lenOk \in BOOLEAN, reqOk \in BOOLEAN :
          \E c \in { capabilities_raw(Fields(_capabilities, _capabilities_raw, fetched),
                        devCaps, lenOk, reqOk) } :
              /\ call' = Call("capabilities_raw", NoArg, c.r)
              /\ _capabilities' = c.f.cap
              /\ _capabilities_raw' = c.f.raw
              /\ fetched' = c.f.fetched
    /\ UNCHANGED << input, parsed, devCaps, releaseCalls, finalized >>

GetModel ==
    /\ Ready
    /\ \E lenOk \in BOOLEAN, reqOk \in BOOLEAN :
          \E c \in { model(Fields(_capabilities, _capabilities_raw, fetched),
                        devCaps, lenOk, reqOk) } :
              /\ call' = Call("model", NoArg, c.r)
              /\ _capabilities' = c.f.cap
              /\ _capabilities_raw' = c.f.raw
              /\ fetched' = c.f.fetched
    /\ UNCHANGED << input, parsed, devCaps, releaseCalls, finalized >>

GetDisplayTechnologyType ==
    /\ Ready
    /\ \E reply \in EnumReplies :
          call' = Call("display_technology_type", NoArg, display_technology_type(reply))
    /\ UNCHANGED << input, parsed, devCaps, _capabilities, _capabilities_raw,
                    fetched, releaseCalls, finalized >>

GetFlatPanelSubPixelLayout ==
    /\ Ready
    /\ \E reply \in EnumReplies :
          call' = Call("flat_panel_sub_pixel_layout", NoArg, flat_panel_sub_pixel_layout(reply))
    /\ UNCHANGED << input, parsed, devCaps, _capabilities, _capabilities_raw,
                    fetched, releaseCalls, finalized >>

GetDisplayControllerType ==
    /\ Ready
    /\ \E reply \in EnumReplies :
          call' = Call("display_controller_type", NoArg, display_controller_type(reply))
    /\ UNCHANGED << input, parsed, devCaps, _capabilities, _capabilities_raw,
                    fetched, releaseCalls, finalized >>

GetHorizontalFrequency ==
    /\ Ready
    /\ \E reply \in FreqReplies :
          call' = Call("horizontal_frequency", NoArg, horizontal_frequency(reply))
    /\ UNCHANGED << input, parsed, devCaps, _capabilities, _capabilities_raw,
                    fetched, releaseCalls, finalized >>

SetBrightness ==
    /\ Ready
    /\ \E value \in UserValues, reply \in ContReplies, setOk \in BOOLEAN :
          call' = Call("brightness.setter", ValueArg(value), brightness_setter(value, reply, setOk))
    /\ UNCHANGED << input, parsed, devCaps, _capabilities, _capabilities_raw,
                    fetched, releaseCalls, finalized >>

SetContrast ==
    /\ Ready
    /\ \E value \in UserValues, reply \in ContReplies, setOk \in BOOLEAN :
          call' = Call("contrast.setter", ValueArg(value), contrast_setter(value, reply, setOk))
    /\ UNCHANGED << input, parsed, devCaps, _capabilities, _capabilities_raw,
                    fetched, releaseCalls, finalized >>

GetColorPreset ==
    /\ Ready
    /\ \E reply \in EnumReplies :
          call' = Call("color_preset", NoArg, color_preset_getter(reply))
    /\ UNCHANGED << input, parsed, devCaps, _capabilities, _capabilities_raw,
                    fetched, releaseCalls, finalized >>

SetColorPreset ==
    /\ Ready
    /\ \E name \in SettingNames, reply \in EnumReplies, setOk \in BOOLEAN :
          call' = Call("color_preset.setter", NameArg(name), color_preset_setter(name, reply, setOk))
    /\ UNCHANGED << input, parsed, devCaps, _capabilities, _capabilities_raw,
                    fetched, releaseCalls, finalized >>

GetInputSource ==
    /\ Ready
    /\ \E reply \in EnumReplies :
          call' = Call("input_source", NoArg, input_source_getter(reply))
    /\ UNCHANGED << input, parsed, devCaps, _capabilities, _capabilities_raw,
                    fetched, releaseCalls, finalized >>

SetInputSource ==
    /\ Ready
    /\ \E name \in SettingNames, reply \in EnumReplies, setOk \in BOOLEAN :
          call' = Call("input_source.setter", NameArg(name), input_source_setter(name, reply, setOk))
    /\ UNCHANGED << input, parsed, devCaps, _capabilities, _capabilities_raw,
                    fetched, releaseCalls, finalized >>

GetDisplayApplication ==
    /\ Ready
    /\ \E reply \in EnumReplies :
          call' = Call("display_application", NoArg, display_application_getter(reply))
    /\ UNCHANGED << input, parsed, devCaps, _capabilities, _capabilities_raw,
                    fetched, releaseCalls, finalized >>

SetDisplayApplication ==
    /\ Ready
    /\ \E name \in SettingNames, reply \in EnumReplies, setOk \in BOOLEAN :
          call' = Call("display_application.setter", NameArg(name), display_application_setter(name, reply, setOk))
    /\ UNCHANGED << input, parsed, devCaps, _capabilities, _capabilities_raw,
                    fetched, releaseCalls, finalized >>

GetPowerMode ==
    /\ Ready
    /\ \E reply \in EnumReplies :
          call' = Call("power_mode", NoArg, power_mode_getter(reply))
    /\ UNCHANGED << input, parsed, devCaps, _capabilities, _capabilities_raw,
                    fetched, releaseCalls, finalized >>

SetPowerMode ==
    /\ Ready
    /\ \E name \in SettingNames, reply \in EnumReplies, setOk \in BOOLEAN :
          call' = Call("power_mode.setter", NameArg(name), power_mode_setter(name, reply, setOk))
    /\ UNCHANGED << input, parsed, devCaps, _capabilities, _capabilities_raw,
                    fetched, releaseCalls, finalized >>

SetRgb ==
    /\ Ready
    /\ \E values \in [1 .. 3 -> RgbValues], replies \in [1 .. 3 -> RgbReplies],
          setOks \in [1 .. 3 -> BOOLEAN] :
          call' = Call("rgb.setter", ValuesArg(values),
                       rgb_setter(values, replies, setOks))
    /\ UNCHANGED << input, parsed, devCaps, _capabilities, _capabilities_raw,
                    fetched, releaseCalls, finalized >>

\* an explicit close() by the caller
Close ==
    /\ Ready
    /\ releaseCalls < MaxCloseCalls
    /\ \E ok \in BOOLEAN : call' = Call("close", NoArg, close(ok))
    /\ releaseCalls' = releaseCalls + 1
    /\ UNCHANGED << input, parsed, devCaps, _capabilities, _capabilities_raw,
                    fetched, finalized >>

\* __del__ at the end of the instance's life: it calls close(); an
\* exception leaving __del__ is reported and dropped by the interpreter
Finalize ==
    /\ Ready
    /\ \E ok \in BOOLEAN : call' = Call("__del__", NoArg, close(ok))
    /\ releaseCalls' = releaseCalls + 1
    /\ finalized' = TRUE
    /\ UNCHANGED << input, parsed, devCaps, _capabilities, _capabilities_raw,
                    fetched >>

Next ==
    \/ Return
    \/ GetCapabilities \/ GetCapabilitiesRaw \/ GetModel
    \/ GetDisplayTechnologyType \/ GetFlatPanelSubPixelLayout
    \/ GetDisplayControllerType
    \/ GetHorizontalFrequency
    \/ SetBrightness \/ SetContrast
    \/ GetColorPreset \/ SetColorPreset
    \/ GetInputSource \/ SetInputSource
    \/ GetDisplayApplication \/ SetDisplayApplication
    \/ GetPowerMode \/ SetPowerMode
    \/ SetRgb
    \/ Close \/ Finalize

Spec == Init /\ [][Next]_vars

(***************************************************************************)
(* parse_capabilities_string applied to one string, with no instance.      *)
(***************************************************************************)

InitParse ==
    /\ input \in ParseInputs
    /\ parsed = NotParsed
    /\ devCaps = Canonical
    /\ _capabilities = CapNone
    /\ _capabilities_raw = Unbound
    /\ fetched = 0
    /\ releaseCalls = 0
    /\ finalized = FALSE
    /\ call = Idle

ParseCapabilitiesString ==
    /\ ~parsed.done
    /\ parsed' = LET r == parse_capabilities_string(input)
                 IN  [done |-> TRUE, err |-> r.err, capabilities |-> r.capabilities]
    /\ UNCHANGED << input, devCaps, _capabilities, _capabilities_raw, fetched,
                    releaseCalls, finalized, call >>

NextParse == ParseCapabilitiesString

SpecParse == InitParse /\ [][NextParse]_vars

(***************************************************************************)
(* _parse_vcp_list applied to one vcp body, with no instance.              *)
(***************************************************************************)

MaxCodes == 3

\* one entry of a vcp body: a bare code, or a code with its sub-group
BareCode(c) == [code |-> c, grouped |-> FALSE, values |-> << >>]
GroupedCode(c, vs) == [code |-> c, grouped |-> TRUE, values |-> vs]

VcpEntries ==
    { BareCode(<< "1", "0" >>), BareCode(<< "A", "C" >>),
      GroupedCode(<< "1", "4" >>, << << "0", "1" >> >>),
      GroupedCode(<< "6", "0" >>, << << "0", "1" >>, << "0", "4" >> >>) }

\* the tokens of a sequence separated by single spaces
RECURSIVE JoinSpace(_)
JoinSpace(tokens) ==
    IF tokens = << >> THEN << >>
    ELSE IF Len(tokens) = 1 THEN tokens[1]
    ELSE tokens[1] \o << " " >> \o JoinSpace(Tail(tokens))

\* the text of one entry: code, or code(v1 v2 ...)
EntryText(e) ==
    IF e.grouped THEN e.code \o << "(" >> \o JoinSpace(e.values) \o << ")" >>
    ELSE e.code

BodyText(entries) ==
    JoinSpace([k \in 1 .. Len(entries) |-> EntryText(entries[k])])

RECURSIVE EntrySeqs(_)
EntrySeqs(n) ==
    IF n = 0 THEN { << >> }
    ELSE LET S == EntrySeqs(n - 1) IN
         S \cup { es \o << e >> : es \in S, e \in VcpEntries }

VcpBodies == EntrySeqs(MaxCodes) \ { << >> }

VcpInputs == { BodyText(es) : es \in VcpBodies }

InitVcp ==
    /\ input \in VcpInputs
    /\ parsed = NotParsed
    /\ devCaps = Canonical
    /\ _capabilities = CapNone
    /\ _capabilities_raw = Unbound
    /\ fetched = 0
    /\ releaseCalls = 0
    /\ finalized = FALSE
    /\ call = Idle

\* parsed.capabilities holds the dict that _parse_vcp_list returned
ParseVcpList ==
    /\ ~parsed.done
    /\ parsed' = LET r == _parse_vcp_list(input)
                 IN  [done |-> TRUE, err |-> r.err, capabilities |-> r.vcp_dict]
    /\ UNCHANGED << input, devCaps, _capabilities, _capabilities_raw, fetched,
                    releaseCalls, finalized, call >>

NextVcp == ParseVcpList

SpecVcp == InitVcp /\ [][NextVcp]_vars

(***************************************************************************)
(* Properties of the parser.                                               *)
(***************************************************************************)

Has(d, k) == k \in DOMAIN d

Balanced(s) ==
    LET count(c, n) == Cardinality({ i \in 1 .. n : s[i] = c }) IN
    /\ \A n \in 0 .. Len(s) : count(")", n) <= count("(", n)
    /\ count(")", Len(s)) = count("(", Len(s))

\* C1: parsing the documented string yields model == "U2713HM",
\* cmds == ["01","02","03"], vcp["02"] is None, vcp["14"] == ["01","04","05"],
\* vcp["60"] == ["01","03","04","0F"], and vcp["AC"] present and None.
C1_CanonicalDocument ==
    (parsed.done /\ input = Canonical) =>
        LET doc == parsed.capabilities IN
        /\ parsed.err = "none"
        /\ Has(doc, KeyModel)
        /\ doc[KeyModel] = RawValue(<< "U", "2", "7", "1", "3", "H", "M" >>)
        /\ Has(doc, KeyCmds)
        /\ doc[KeyCmds] = ListValue(<< << "0", "1" >>, << "0", "2" >>, << "0", "3" >> >>)
        /\ Has(doc, KeyVcp)
        /\ doc[KeyVcp].kind = "vcp"
        /\ LET vcp == doc[KeyVcp].vcp IN
           /\ Has(vcp, << "0", "2" >>) /\ vcp[<< "0", "2" >>] = VcpNone
           /\ Has(vcp, << "1", "4" >>)
           /\ vcp[<< "1", "4" >>] =
                 VcpList(<< << "0", "1" >>, << "0", "4" >>, << "0", "5" >> >>)
           /\ Has(vcp, << "6", "0" >>)
           /\ vcp[<< "6", "0" >>] =
                 VcpList(<< << "0", "1" >>, << "0", "3" >>, << "0", "4" >>,
                            << "0", "F" >> >>)
           /\ Has(vcp, << "A", "C" >>) /\ vcp[<< "A", "C" >>] = VcpNone

\* C6: for every input with unbalanced parentheses the call ends in a parse
\* error and returns no document.
C6_UnbalancedRejected ==
    (parsed.done /\ ~Balanced(input)) => parsed.err # "none"

(***************************************************************************)
(* Properties of the calls on a Display.                                   *)
(***************************************************************************)

CountPrim(events, prim) ==
    Cardinality({ i \in DOMAIN events : events[i].prim = prim })

CountOn(events, prim, code) ==
    Cardinality({ i \in DOMAIN events :
                    events[i].prim = prim /\ events[i].code = code })

\* the call began with a read that succeeded
ReadOk(c) ==
    /\ Len(c.events) >= 1
    /\ c.events[1].prim = "get_feature"
    /\ c.events[1].ok

ContinuousSetters == { "brightness.setter", "contrast.setter" }

ContinuousCode(op) == IF op = "brightness.setter" THEN 16 ELSE 18

\* C2: a continuous setter called with the value its own read returned as
\* current performs one get_feature and no set_feature.
C2_NoOpWrite ==
    (/\ call.op \in ContinuousSetters
     /\ ReadOk(call)
     /\ call.arg.value = call.events[1].cur)
    => /\ CountPrim(call.events, "get_feature") = 1
       /\ CountPrim(call.events, "set_feature") = 0
       /\ call.outcome = "ok"

C2_Witness ==
    /\ call.op = "brightness.setter"
    /\ call.arg.value = 100
    /\ call.events = << GetEv(16, OkReply(100, 100)) >>

\* C3: a continuous setter called with v different from the current value
\* issues exactly one set_feature, on the feature's code, whose value is v
\* clamped into [0, maximum].
C3_Clamp ==
    (/\ call.op \in ContinuousSetters
     /\ ReadOk(call)
     /\ call.arg.value # call.events[1].cur)
    => /\ Len(call.events) = 2
       /\ call.events[1].code = ContinuousCode(call.op)
       /\ call.events[2].prim = "set_feature"
       /\ call.events[2].code = ContinuousCode(call.op)
       /\ LET v == call.arg.value
              m == call.events[1].max
              w == call.events[2].value
          IN  /\ 0 <= w /\ w <= m
              /\ (v > m => w = m)
              /\ (v < 0 => w = 0)
              /\ (0 <= v /\ v <= m => w = v)

C3_Witness ==
    /\ call.op = "brightness.setter"
    /\ call.arg.value = 150
    /\ Len(call.events) = 2
    /\ call.events[1].max = 100
    /\ call.events[2] = SetEv(16, 100, TRUE)

EnumSetters ==
    { "color_preset.setter", "input_source.setter",
      "display_application.setter", "power_mode.setter" }

\* the names each enumerated setter accepts
SetterNames(op) ==
    IF op = "color_preset.setter" THEN DOMAIN _color_presets_i
    ELSE IF op = "input_source.setter" THEN DOMAIN _input_sources_i
    ELSE IF op = "display_application.setter" THEN DOMAIN _display_applications_i
    ELSE DOMAIN _power_mode_i

\* C4: an enumerated setter called with a name outside its table ends in an
\* error and invokes neither get_feature nor set_feature.
C4_UnknownNameNoIO ==
    (call.op \in EnumSetters /\ call.arg.name \notin SetterNames(call.op))
    => /\ call.outcome # "ok"
       /\ call.result = Raised
       /\ call.events = << >>

C4_Witness ==
    /\ call.op = "color_preset.setter"
    /\ call.arg.name = "neon"
    /\ call.outcome = "KeyError"
    /\ call.events = << >>

RgbCode(i) == IF i = 1 THEN 22 ELSE IF i = 2 THEN 24 ELSE 26

\* C5 as stated: for a channel whose value is -1 the call invokes neither
\* get_feature nor set_feature on that channel's code.
C5_SentinelSkipsReadAndWrite ==
    call.op = "rgb.setter" =>
        \A i \in 1 .. 3 :
            call.arg.values[i] = -1 =>
                /\ CountOn(call.events, "get_feature", RgbCode(i)) = 0
                /\ CountOn(call.events, "set_feature", RgbCode(i)) = 0

\* the value the read on channel i returned in this call
RgbRead(c, i) ==
    LET k == CHOOSE k \in DOMAIN c.events :
                 c.events[k].prim = "get_feature" /\ c.events[k].code = RgbCode(i)
    IN  c.events[k]

\* C5 as amended: for a channel whose value is -1 the call never invokes
\* set_feature on that channel's code, and reads the channel at most once
\* (exactly once when the call completes); the other channels are read
\* once and written once, clamped, unless the value equals the one read.
C5_SentinelSkipsWrite ==
    call.op = "rgb.setter" =>
        \A i \in 1 .. 3 :
            LET v == call.arg.values[i]
                gets == CountOn(call.events, "get_feature", RgbCode(i))
                sets == CountOn(call.events, "set_feature", RgbCode(i))
            IN  /\ gets <= 1
                /\ (call.outcome = "ok" => gets = 1)
                /\ (v = -1 => sets = 0)
                /\ (v # -1 /\ call.outcome = "ok" =>
                       IF v = RgbRead(call, i).cur THEN sets = 0
                       ELSE /\ sets = 1
                            /\ \E k \in DOMAIN call.events :
                                 call.events[k] =
                                    SetEv(RgbCode(i),
                                          IF v > RgbRead(call, i).max
                                          THEN RgbRead(call, i).max
                                          ELSE IF v < 0 THEN 0 ELSE v,
                                          TRUE))

C5_Witness ==
    /\ call.op = "rgb.setter"
    /\ call.outcome = "ok"
    /\ call.arg.values = << -1, 0, 2 >>
    /\ CountOn(call.events, "get_feature", 22) = 1
    /\ CountOn(call.events, "set_feature", 22) = 0
    /\ CountOn(call.events, "set_feature", 24) = 1
    /\ CountOn(call.events, "set_feature", 26) = 1

\* C7: over the life of an instance DestroyPhysicalMonitor is invoked
\* exactly once: when the instance is gone, one release has been made.
C7_ReleasedExactlyOnce == finalized => releaseCalls = 1

CapabilityProperties == { "capabilities", "capabilities_raw", "model" }

TransportOk(c) == \A i \in DOMAIN c.events : c.events[i].ok

\* C8: after an access to capabilities, capabilities_raw or model whose
\* transport did not fail, the instance is Cached and the capabilities
\* string has been fetched exactly once.
C8_FirstAccessCaches ==
    (call.op \in CapabilityProperties /\ TransportOk(call))
    => /\ ~_capabilities.isNone
       /\ _capabilities_raw.bound
       /\ fetched = 1

\* C9: for every entry (code, name) of the input_source table, the setter
\* given name writes code when the current value differs, the getter
\* decodes a current value of code to name, and the two tables are
\* inverses of each other.
C9_InputSourceRoundTrip ==
    /\ \A code \in DOMAIN _input_sources :
         LET name == _input_sources[code] IN
         /\ (/\ call.op = "input_source.setter"
             /\ call.arg.name = name
             /\ ReadOk(call)
             /\ call.events[1].cur # code)
            => /\ Len(call.events) = 2
               /\ call.events[2] = SetEv(96, code, call.events[2].ok)
         /\ (call.op = "input_source" /\ ReadOk(call) /\ call.events[1].cur = code)
            => /\ call.outcome = "ok"
               /\ call.result = StrResult(name)
         /\ Has(_input_sources_i, name) /\ _input_sources_i[name] = code
    /\ \A name \in DOMAIN _input_sources_i :
         /\ Has(_input_sources, _input_sources_i[name])
         /\ _input_sources[_input_sources_i[name]] = name

C9_Witness ==
    /\ call.op = "input_source.setter"
    /\ call.arg.name = "dp"
    /\ call.events = << GetEv(96, OkReply(1, 255)), SetEv(96, 15, TRUE) >>

ReadOnlyDecoded ==
    { "display_technology_type", "flat_panel_sub_pixel_layout",
      "display_controller_type" }

EnumGetters ==
    { "color_preset", "input_source", "display_application", "power_mode" }

\* the codes each getter's lookup table holds
TableCodes(op) ==
    IF op = "display_technology_type" THEN DOMAIN _display_technology_types
    ELSE IF op = "flat_panel_sub_pixel_layout"
    THEN DOMAIN _flat_panel_sub_pixel_layouts
    ELSE IF op = "display_controller_type" THEN DOMAIN _display_controller_type_lsb
    ELSE IF op = "color_preset" THEN DOMAIN _color_presets
    ELSE IF op = "input_source" THEN DOMAIN _input_sources
    ELSE IF op = "display_application" THEN DOMAIN _display_applications
    ELSE DOMAIN _power_mode

\* a settable enumeration read with a current value outside its table ends
\* in an error and returns no name
EnumGetterRaises ==
    (call.op \in EnumGetters /\ ReadOk(call)
        /\ call.events[1].cur \notin TableCodes(call.op))
    => call.outcome # "ok" /\ call.result = Raised

\* C10 as stated: a read-only decoded field read with a current value that
\* is not in its table returns None with no error, and a settable
\* enumeration read with such a value ends in an error.
C10_UnknownValueLiteral ==
    /\ (call.op \in ReadOnlyDecoded /\ ReadOk(call)
           /\ call.events[1].cur \notin TableCodes(call.op))
       => call.outcome = "ok" /\ call.result = PyNone
    /\ EnumGetterRaises

\* the value a read-only decoded field looks up: display_controller_type
\* looks up the low byte of the current value
LookedUp(op, cur) == IF op = "display_controller_type" THEN cur % 256 ELSE cur

\* C10 as amended: the read-only decoded fields return None with no error
\* when the value they look up (for display_controller_type the low byte
\* of the current value) is not in the table, and return a name otherwise;
\* the settable enumerations end in an error.
C10_UnknownValue ==
    /\ (call.op \in ReadOnlyDecoded /\ ReadOk(call))
       => /\ call.outcome = "ok"
          /\ (LookedUp(call.op, call.events[1].cur) \notin TableCodes(call.op)
                 <=> call.result = PyNone)
    /\ EnumGetterRaises

C10_Witness ==
    /\ call.op = "display_technology_type"
    /\ call.events = << GetEv(182, OkReply(0, 255)) >>
    /\ call.outcome = "ok"
    /\ call.result = PyNone

(***************************************************************************)
(* horizontal_frequency.                                                   *)
(***************************************************************************)

\* the raw word a successful horizontal_frequency call read
FreqRaw(c) == c.events[1].cur

\* C11: for every raw 16-bit value read for Horizontal Frequency the getter
\* returns (raw | 0x10000) / 1000 when raw < 50000 and raw / 1000 when
\* raw >= 50000; raw 40000 gives 105.536 and raw 60000 gives 60.0.
C11_HorizontalFrequency ==
    (call.op = "horizontal_frequency" /\ ReadOk(call)
        /\ FreqRaw(call) < 65536) =>
        /\ call.outcome = "ok"
        /\ call.result.kind = "float"
        /\ FreqRaw(call) < 50000 => call.result.milli = FreqRaw(call) + 65536
        /\ FreqRaw(call) >= 50000 => call.result.milli = FreqRaw(call)
        /\ FreqRaw(call) = 40000 => call.result.milli = 105536
        /\ FreqRaw(call) = 60000 => call.result.milli = 60000

\* the threshold itself was read and returned uncorrected
C11_Witness ==
    /\ call.op = "horizontal_frequency"
    /\ ReadOk(call)
    /\ FreqRaw(call) = 50000
    /\ call.result = FloatResult(50000)

(***************************************************************************)
(* Failure of a feature primitive.                                         *)
(***************************************************************************)

FeaturePrims == { "get_feature", "set_feature" }

\* the i-th primitive of the call is a feature read or write that failed
FeatureFailedAt(c, i) ==
    /\ i \in 1 .. Len(c.events)
    /\ c.events[i].prim \in FeaturePrims
    /\ ~c.events[i].ok

\* C12: in every getter and setter a failed get_feature or set_feature is
\* the last primitive of the call and the call ends with that error: the
\* failed primitive is not invoked again, and a failed read is followed by
\* no set_feature.
C12_FailureEndsCall ==
    \A i \in 1 .. Len(call.events) :
        FeatureFailedAt(call, i) =>
            /\ i = Len(call.events)
            /\ call.outcome = "WinError"
            /\ call.result = Raised
            /\ \A j \in 1 .. Len(call.events) :
                  j > i => /\ call.events[j].prim # "set_feature"
                           /\ ~(call.events[j].prim = call.events[i].prim
                                 /\ call.events[j].code = call.events[i].code)

\* a setter whose read failed although the value asked for differs from
\* every value the read could have produced
C12_Witness ==
    /\ call.op = "contrast.setter"
    /\ call.arg.value = 150
    /\ FeatureFailedAt(call, 1)
    /\ call.events[1].prim = "get_feature"
    /\ call.outcome = "WinError"

(***************************************************************************)
(* The keys of the top-level groups.                                       *)
(***************************************************************************)

\* the nesting depth in front of position i (1-based), wrapper included
Depth(s, i) ==
    Cardinality({ k \in 1 .. i - 1 : s[k] = "(" })
        - Cardinality({ k \in 1 .. i - 1 : s[k] = ")" })

IsIdentChar(c) == c \notin { "(", ")" } /\ ~IsSpace(c)

\* the positions of the '(' that open a top-level group inside the wrapper
GroupOpens(s) == { i \in 2 .. Len(s) : s[i] = "(" /\ Depth(s, i) = 1 }

\* where the identifier in front of the '(' at i starts
IdentStart(s, i) ==
    CHOOSE k \in 1 .. i :
        /\ \A j \in k .. i - 1 : IsIdentChar(s[j])
        /\ (k = 1 \/ ~IsIdentChar(s[k - 1]))

GroupIdent(s, i) == SubSeq(s, IdentStart(s, i), i - 1)

\* the ')' that closes the group opened at i
GroupClose(s, i) ==
    CHOOSE j \in i + 1 .. Len(s) :
        /\ s[j] = ")"
        /\ Depth(s, j) = 2
        /\ \A k \in i + 1 .. j - 1 : ~(s[k] = ")" /\ Depth(s, k) = 2)

GroupBody(s, i) == SubSeq(s, i + 1, GroupClose(s, i) - 1)

\* an unlabeled wrapper around one or more groups ident(body)
WellFormedWrapped(s) ==
    /\ Len(s) >= 2
    /\ s[1] = "(" /\ s[Len(s)] = ")"
    /\ Balanced(s)
    /\ \A i \in 2 .. Len(s) : Depth(s, i) >= 1
    /\ GroupOpens(s) # { }
    /\ \A i \in GroupOpens(s) : GroupIdent(s, i) # << >>
    /\ \A i \in 2 .. Len(s) - 1 :
          Depth(s, i) = 1 => (s[i] = "(" \/ IsIdentChar(s[i]))

\* the last group that carries the identifier of the group opened at i
LastWithIdent(s, i) ==
    \A j \in GroupOpens(s) : GroupIdent(s, j) = GroupIdent(s, i) => j <= i

\* C13: for every well-formed string that begins with the unlabeled wrapper,
\* each top-level group, the first one included, is stored under exactly its
\* full identifier and bound to its body; no key is a truncated or shifted
\* substring of an identifier.
C13_TopLevelKeys ==
    (parsed.done /\ WellFormedWrapped(input)) =>
        LET doc == parsed.capabilities IN
        /\ parsed.err = "none"
        /\ DOMAIN doc = { GroupIdent(input, i) : i \in GroupOpens(input) }
        /\ \A i \in GroupOpens(input) :
              (LastWithIdent(input, i)
                  /\ GroupIdent(input, i) \notin { KeyCmds, KeyVcp }) =>
                  /\ Has(doc, GroupIdent(input, i))
                  /\ doc[GroupIdent(input, i)] = RawValue(GroupBody(input, i))

(***************************************************************************)
(* The keys of the vcp map.                                                *)
(***************************************************************************)

\* the entry of the body that decides what a code maps to: the last one
LastEntryOf(entries, c) ==
    entries[CHOOSE k \in 1 .. Len(entries) :
                /\ entries[k].code = c
                /\ \A j \in k + 1 .. Len(entries) : entries[j].code # c]

\* C14: for every body of single-space-separated 2-character codes, each
\* optionally followed directly by a parenthesized sub-group of 2-character
\* values, the key set of the returned map is exactly the set of the codes:
\* a code with a sub-group maps to the list of its values, a code without
\* one maps to None (a bare last code included), and no value of a
\* sub-group becomes a key.
C14_VcpKeySet ==
    parsed.done =>
        \A entries \in VcpBodies :
            BodyText(entries) = input =>
                LET codes == { entries[k].code : k \in 1 .. Len(entries) } IN
                /\ parsed.err = "none"
                /\ DOMAIN parsed.capabilities = codes
                /\ \A c \in codes :
                      parsed.capabilities[c] =
                          IF LastEntryOf(entries, c).grouped
                          THEN VcpList(LastEntryOf(entries, c).values)
                          ELSE VcpNone

(***************************************************************************)
(* The order of the channels in the rgb setter.                            *)
(***************************************************************************)

\* the channel (1 Red, 2 Green, 3 Blue) a primitive of an rgb call is on;
\* 0 for a code that is no gain channel
ChannelOf(e) ==
    IF e.code = 22 THEN 1 ELSE IF e.code = 24 THEN 2
    ELSE IF e.code = 26 THEN 3 ELSE 0

\* C15: rgb set with three values goes through Red (0x16), Green (0x18),
\* Blue (0x1A) in this order; every set_feature directly follows a
\* successful get_feature on the same code and a channel is read and
\* written at most once; when a primitive fails, it is the last one of the
\* call: the writes made on earlier channels are not undone and the later
\* channels are neither read nor written.
C15_RgbOrderNoRollback ==
    (call.op = "rgb.setter" /\ Len(call.arg.values) = 3) =>
        LET ev == call.events
            n == Len(call.events)
        IN  /\ \A k \in 1 .. n :
                  /\ ev[k].prim \in FeaturePrims
                  /\ ChannelOf(ev[k]) \in 1 .. 3
            /\ n >= 1 => (ev[1].prim = "get_feature" /\ ChannelOf(ev[1]) = 1)
            /\ \A k \in 2 .. n :
                  IF ev[k].prim = "set_feature"
                  THEN /\ ev[k - 1].prim = "get_feature"
                       /\ ev[k - 1].ok
                       /\ ev[k - 1].code = ev[k].code
                  ELSE ChannelOf(ev[k]) = ChannelOf(ev[k - 1]) + 1
            /\ \A i \in 1 .. 3 :
                  /\ CountOn(ev, "get_feature", RgbCode(i)) <= 1
                  /\ CountOn(ev, "set_feature", RgbCode(i)) <= 1
            /\ \A k \in 1 .. n :
                  ~ev[k].ok =>
                      /\ k = n
                      /\ call.outcome = "WinError"
                      /\ \A i \in ChannelOf(ev[k]) + 1 .. 3 :
                            /\ CountOn(ev, "get_feature", RgbCode(i)) = 0
                            /\ CountOn(ev, "set_feature", RgbCode(i)) = 0
            /\ call.outcome = "ok" =>
                  \A i \in 1 .. 3 : CountOn(ev, "get_feature", RgbCode(i)) = 1

\* Red was written, then the read of Green failed: the write on Red is the
\* only write of the call and Blue was not touched
C15_Witness ==
    /\ call.op = "rgb.setter"
    /\ call.outcome = "WinError"
    /\ Len(call.events) = 3
    /\ call.events[2] = SetEv(22, 1, TRUE)
    /\ call.events[3].prim = "get_feature"
    /\ call.events[3].code = 24
    /\ ~call.events[3].ok
    /\ CountOn(call.events, "get_feature", 26) = 0

====
